---- MODULE Spec2Model ----
(***************************************************************************)
(* A model of pygrep (src/pygrep.py): the positional matcher               *)
(* (normal_search / lower_search), the pattern matcher (pygrep_search,     *)
(* grouped_iter), the mapped-match path (mmap_reader / pygrep_mmap), the   *)
(* chunked parallel driver (chunked_file_reader / multi_cpu), the          *)
(* line-range selector (line_func) and the part of main_seq that wires     *)
(* them together.                                                          *)
(*                                                                         *)
(* Text is modelled as a sequence of one-character strings.  Python lists  *)
(* are sequences.  A value that may be None is a sequence of length 0      *)
(* (None) or 1 (the value).  Positions inside Python text are 0-based, as  *)
(* in the source; the element at Python position i is s[i + 1].            *)
(***************************************************************************)
EXTENDS Integers, Sequences, FiniteSets, TLC

VARIABLES
    args,            \* the configuration bundle (argparse namespace)
    file,            \* the input file: its lines, without their terminators
    pc,              \* position of main_seq
    checkFirst,      \* left trim  (None or an int), set by omit_check
    checkLast,       \* right trim (None or an int), set by omit_check
    file_list,       \* main_seq's file_list: the lines handed to a matcher
    pattern_search,  \* main_seq's pattern_search: the result sequence
    chunks,          \* multi_cpu: the chunks as submitted, in order
    futures,         \* multi_cpu: per chunk "pending" | "running" | "done"
    results,         \* multi_cpu: per chunk the worker's outcome
    workers,         \* multi_cpu: per worker the chunk it runs (0 = idle)
    done_order,      \* multi_cpu: the chunks in the order their results arrived
    collected,       \* multi_cpu: number of chunks already yielded
    start_end,       \* line_func's parameter start_end
    line_range,      \* line_func's second return value
    gen,             \* pattern_search is a list ("none"), a generator that
                     \* has not run ("fresh") or an exhausted one ("spent")
    resume,          \* where main_seq goes on once the generator is exhausted
    output           \* the lines written to standard output

vars == <<args, file, pc, checkFirst, checkLast, file_list, pattern_search,
          chunks, futures, results, workers, done_order, collected,
          start_end, line_range, gen, resume, output>>

----------------------------------------------------------------------------
(* Bounds of the model. *)

MaxLineLen == 3      \* longest input line of the positional specification
MaxOcc == 2          \* largest occurrence number on the command line
MaxPosLines == 2     \* most lines of a file of the positional specification
MaxParLines == 4     \* most lines of a file of the parallel specification
MaxWorkers == 2      \* largest worker count (--multi)
MaxPipeLines == 2    \* most lines of a file of the pipeline specification
MaxResults == 5      \* longest result sequence handed to line_func
MaxExprLen == 3      \* most characters of a range expression (--lines)
MaxPostLen == 3      \* longest result list of the post-processing specification
MaxFlagLines == 2    \* most lines of a file of the flags specification
MaxTrim == 2         \* largest count of --omitfirst and --omitlast
\* multi_cpu sets chunk_size = 10000; the model scales it down so that a file
\* of a few lines is split into several chunks.
ChunkSize == 2

----------------------------------------------------------------------------
(* Python helpers. *)

None == <<>>
Some(x) == <<x>>

Min2(x, y) == IF x <= y THEN x ELSE y
Max2(x, y) == IF x >= y THEN x ELSE y

\* s[lo:hi] for 0-based bounds already normalised to 0..len(s).
Cut(s, lo, hi) == IF hi <= lo THEN <<>> ELSE SubSeq(s, lo + 1, hi)

\* How Python clamps one slice bound against a text of length n.
SliceBound(i, n) == IF i < 0 THEN Max2(i + n, 0) ELSE Min2(i, n)

\* s[first:last] where first and last are None or an int.
PySlice(s, first, last) ==
    LET n  == Len(s)
        lo == IF first = None THEN 0 ELSE SliceBound(first[1], n)
        hi == IF last = None THEN n ELSE SliceBound(last[1], n)
    IN  Cut(s, lo, hi)

\* s.startswith(sub, i)
MatchAt(s, sub, i) ==
    /\ i >= 0
    /\ i + Len(sub) <= Len(s)
    /\ \A k \in 1..Len(sub) : s[i + k] = sub[k]

\* s.index(sub, from): the least position >= from where sub occurs;
\* -1 stands for the ValueError that str.index raises.
RECURSIVE Index(_, _, _)
Index(s, sub, from) ==
    IF from + Len(sub) > Len(s) THEN -1
    ELSE IF MatchAt(s, sub, from) THEN from
    ELSE Index(s, sub, from + 1)

\* sub in s
Contains(s, sub) == Index(s, sub, 0) # -1

\* IndexLoop with the search resumed after the whole occurrence, so that
\* overlapping occurrences are not counted.
RECURSIVE IndexLoop_NoOverlap(_, _, _, _)
IndexLoop_NoOverlap(s, sub, new_index, k) ==
    IF k <= 0 THEN new_index
    ELSE LET j == Index(s, sub, new_index + Len(sub))
         IN  IF j = -1 THEN -1 ELSE IndexLoop_NoOverlap(s, sub, j, k - 1)

\* The loop  for _ in range(k): new_index = s.index(sub, new_index + 1)
\* -1 when one of the index calls raises ValueError.
RECURSIVE IndexLoop(_, _, _, _)
IndexLoop(s, sub, new_index, k) ==
    IF k <= 0 THEN new_index
    ELSE LET j == Index(s, sub, new_index + 1)
         IN  IF j = -1 THEN -1 ELSE IndexLoop(s, sub, j, k - 1)

\* Concatenation of a sequence of sequences.
RECURSIVE Flatten(_)
Flatten(ss) == IF ss = <<>> THEN <<>> ELSE Head(ss) \o Flatten(Tail(ss))

\* str.casefold, character by character: "A" and "B" fold to "a" and "b",
\* the sharp s ("Z" in the model) folds to the two characters "ss", every
\* other character of the model folds to itself.
FoldChar(c) ==
    IF c = "A" THEN <<"a">>
    ELSE IF c = "B" THEN <<"b">>
    ELSE IF c = "Z" THEN <<"s", "s">>
    ELSE <<c>>
Casefold(s) == Flatten([i \in 1..Len(s) |-> FoldChar(s[i])])

IsSpace(c) == c = " " \/ c = "\n"

\* str.strip(): leading and trailing whitespace removed.
RECURSIVE LStrip(_)
LStrip(s) == IF s # <<>> /\ IsSpace(s[1]) THEN LStrip(Tail(s)) ELSE s
RECURSIVE RStrip(_)
RStrip(s) ==
    IF s # <<>> /\ IsSpace(s[Len(s)]) THEN RStrip(SubSeq(s, 1, Len(s) - 1))
    ELSE s
Strip(s) == RStrip(LStrip(s))

Digits == {"0", "1", "2", "3", "4", "5", "6", "7", "8", "9"}
DigitVal(c) ==
    CASE c = "0" -> 0 [] c = "1" -> 1 [] c = "2" -> 2 [] c = "3" -> 3
      [] c = "4" -> 4 [] c = "5" -> 5 [] c = "6" -> 6 [] c = "7" -> 7
      [] c = "8" -> 8 [] c = "9" -> 9

\* The digit that spells n, for n below 10
DigitChar(n) == CHOOSE c \in Digits : DigitVal(c) = n

RECURSIVE DigitsVal(_, _)
DigitsVal(s, acc) ==
    IF s = <<>> THEN acc ELSE DigitsVal(Tail(s), 10 * acc + DigitVal(s[1]))

AllDigits(s) == s # <<>> /\ \A i \in 1..Len(s) : s[i] \in Digits

\* int(s): None stands for ValueError, otherwise the value.  An optional
\* sign followed by decimal digits, after stripping whitespace.
PyInt(s) ==
    LET t    == Strip(s)
        neg  == t # <<>> /\ t[1] = "-"
        sign == t # <<>> /\ t[1] \in {"-", "+"}
        body == IF sign THEN Tail(t) ELSE t
    IN  IF AllDigits(body)
        THEN Some(IF neg THEN 0 - DigitsVal(body, 0) ELSE DigitsVal(body, 0))
        ELSE None

\* The literal 'all'.
ALL == <<"a", "l", "l">>

----------------------------------------------------------------------------
(* Positional matcher: normal_search and lower_search. *)

\* if len(args.start) < 2: args.start.append('all')
StartDefault(start) == IF Len(start) < 2 THEN Append(start, ALL) ELSE start

\* The same for args.end; len(None) raises TypeError, which is passed over.
EndDefault(end) ==
    IF end = None THEN None
    ELSE IF Len(end) < 2 THEN Append(end, ALL) ELSE end

\* The two int() conversions before the loop: TRUE when one of them ends in
\* print_err.  start and end are the lists after the defaults were appended.
OccFatal(start, end) ==
    \/ start[2] # ALL /\ PyInt(start[2]) = None
    \/ end # None /\ end[2] # ALL /\ PyInt(end[2]) = None

\* iter_start; 0 where the source leaves it unbound (it is not read then).
IterStart(start) == IF start[2] # ALL THEN PyInt(start[2])[1] ELSE 0

\* iter_end without the increment for identical tokens.
IterEnd_NoIncrement(start, end) ==
    IF end # None /\ end[2] # ALL THEN PyInt(end[2])[1] ELSE 0

\* iter_end, with the increment for identical tokens.
IterEnd(start, end) ==
    IF end # None /\ end[2] # ALL
    THEN PyInt(end[2])[1] + (IF start[1] = end[1] THEN 1 ELSE 0)
    ELSE 0

\* The numbered branch of the start part of normal_search: new_str cut at
\* the iter_start-th occurrence of the start token, None for ValueError.
NormalStartNth(line, start, iter_start) ==
    LET init_start == Index(line, start[1], 0)
        str0       == Cut(line, init_start, Len(line))
        idx0       == Index(str0, start[1], 0)
        idx        == IF idx0 = -1 THEN -1
                      ELSE IndexLoop(str0, start[1], idx0, iter_start - 1)
    IN  IF idx = -1 THEN None ELSE Some(Cut(str0, idx, Len(str0)))

\* The start part with "all" cutting the line at the first occurrence.
NormalStart_AllCuts(line, start, iter_start) ==
    IF start[2] # ALL THEN NormalStartNth(line, start, iter_start)
    ELSE Some(Cut(line, Index(line, start[1], 0), Len(line)))

\* "Start Arg position and initial string creation" of normal_search:
\* new_str after the start token was located, None for ValueError.
NormalStart(line, start, iter_start) ==
    IF start[2] # ALL THEN NormalStartNth(line, start, iter_start)
    ELSE Some(line)

\* "End Arg positions and final string creation" of normal_search
NormalEnd(new_str, end, iter_end) ==
    IF end # None /\ end[2] # ALL
    THEN LET idx0 == Index(new_str, end[1], 0)
             idx  == IF idx0 = -1 THEN -1
                     ELSE IndexLoop(new_str, end[1], idx0, iter_end - 1)
             length_end == Len(end[1])
         IN  IF idx = -1 THEN None
             ELSE Some(Cut(new_str, 0, idx + length_end))
    ELSE Some(new_str)

\* The body of normal_search's loop for one line: <<>> when the line is
\* passed over, <<fragment>> when it is appended to start_end.
NormalLine(line, start, end, iter_start, iter_end, first, last) ==
    IF ~Contains(line, start[1]) THEN <<>>
    ELSE LET afterStart == NormalStart(line, start, iter_start)
         IN  IF afterStart = None THEN <<>>
             ELSE LET afterEnd == NormalEnd(afterStart[1], end, iter_end)
                  IN  IF afterEnd = None THEN <<>>
                      ELSE <<PySlice(afterEnd[1], first, last)>>

\* The start part of lower_search: the positions come from the folded
\* texts, the slices are taken from the original ones.
LowerStart(line, start, iter_start) ==
    LET lower_line == Casefold(line)
        lower_str  == Casefold(start[1])
    IN  IF start[2] # ALL
        THEN LET init_start == Index(lower_line, lower_str, 0)
                 str0       == Cut(line, Min2(init_start, Len(line)), Len(line))
                 idx0       == Index(Casefold(str0), lower_str, 0)
                 idx        == IF idx0 = -1 THEN -1
                               ELSE IndexLoop(Casefold(str0), lower_str, idx0,
                                              iter_start - 1)
             IN  IF idx = -1 THEN None
                 ELSE Some(Cut(str0, Min2(idx, Len(str0)), Len(str0)))
        ELSE Some(line)

\* The end part of lower_search
LowerEnd(new_str, end, iter_end) ==
    IF end # None /\ end[2] # ALL
    THEN LET lower_end == Casefold(end[1])
             idx0 == Index(Casefold(new_str), lower_end, 0)
             idx  == IF idx0 = -1 THEN -1
                     ELSE IndexLoop(Casefold(new_str), lower_end, idx0,
                                    iter_end - 1)
             length_end == Len(end[1])
         IN  IF idx = -1 THEN None
             ELSE Some(Cut(new_str, 0, Min2(idx + length_end, Len(new_str))))
    ELSE Some(new_str)

\* The body of lower_search's loop for one line.
LowerLine(line, start, end, iter_start, iter_end, first, last) ==
    IF ~Contains(Casefold(line), Casefold(start[1])) THEN <<>>
    ELSE LET afterStart == LowerStart(line, start, iter_start)
         IN  IF afterStart = None THEN <<>>
             ELSE LET afterEnd == LowerEnd(afterStart[1], end, iter_end)
                  IN  IF afterEnd = None THEN <<>>
                      ELSE <<PySlice(afterEnd[1], first, last)>>

\* normal_search's loop over file_list: the list start_end.
RECURSIVE NormalLoop(_, _, _, _, _, _, _)
NormalLoop(lines, start, end, iter_start, iter_end, first, last) ==
    IF lines = <<>> THEN <<>>
    ELSE NormalLine(Head(lines), start, end, iter_start, iter_end, first, last)
         \o NormalLoop(Tail(lines), start, end, iter_start, iter_end,
                       first, last)

\* lower_search's loop over file_list.
RECURSIVE LowerLoop(_, _, _, _, _, _, _)
LowerLoop(lines, start, end, iter_start, iter_end, first, last) ==
    IF lines = <<>> THEN <<>>
    ELSE LowerLine(Head(lines), start, end, iter_start, iter_end, first, last)
         \o LowerLoop(Tail(lines), start, end, iter_start, iter_end,
                      first, last)

\* normal_search(file_list, args, checkFirst, checkLast): the returned list.
\* Defined when OccFatal is FALSE.
normal_search(lines, a, first, last) ==
    LET start == StartDefault(a.start)
        end   == EndDefault(a.end)
    IN  NormalLoop(lines, start, end, IterStart(start), IterEnd(start, end),
                   first, last)

\* lower_search(file_list, args, checkFirst, checkLast).
lower_search(lines, a, first, last) ==
    LET start == StartDefault(a.start)
        end   == EndDefault(a.end)
    IN  LowerLoop(lines, start, end, IterStart(start), IterEnd(start, end),
                  first, last)

----------------------------------------------------------------------------
(* The regular-expression library (re), for the patterns of the model.     *)
(* A compiled pattern is a record: atoms is a sequence of character sets   *)
(* (a literal character is a singleton, "." is the set of all characters   *)
(* but the line terminator), each matching exactly one character, and      *)
(* groups lists the capture groups in order, each a pair <<lo, hi>> of     *)
(* atom positions it encloses.  "(a)(.)" is                                 *)
(* [atoms |-> <<{"a"}, Dot>>, groups |-> <<<<1, 1>>, <<2, 2>>>>].          *)

\* re.IGNORECASE or not: does character c match the atom cs?
CharMatch(c, cs, insensitive) ==
    IF insensitive THEN \E d \in cs : FoldChar(c) = FoldChar(d) ELSE c \in cs

\* pattern.match(s, i) is not None
ReMatchAt(s, pat, i, insensitive) ==
    /\ i + Len(pat.atoms) <= Len(s)
    /\ \A k \in 1..Len(pat.atoms) : CharMatch(s[i + k], pat.atoms[k], insensitive)

\* pattern.finditer(s): the 0-based start positions of the successive
\* non-overlapping matches, scanning left to right from pos.
RECURSIVE FindIter(_, _, _, _)
FindIter(s, pat, insensitive, pos) ==
    IF pos + Len(pat.atoms) > Len(s) THEN <<>>
    ELSE IF ReMatchAt(s, pat, pos, insensitive)
         THEN <<pos>> \o FindIter(s, pat, insensitive, pos + Len(pat.atoms))
         ELSE FindIter(s, pat, insensitive, pos + 1)

\* match.group(0) of the match that starts at p
Group0(s, pat, p) == Cut(s, p, p + Len(pat.atoms))

\* match.groups() of the match that starts at p
MatchGroups(s, pat, p) ==
    [k \in 1..Len(pat.groups) |->
        Cut(s, p + pat.groups[k][1] - 1, p + pat.groups[k][2])]

\* test_reg.groups
GroupNum(pat) == Len(pat.groups)

\* pattern.findall(s): a list of whole matches for a pattern without groups,
\* of the group's texts for a pattern with one group, of tuples of texts for
\* a pattern with several groups.
FindAll(s, pat, insensitive) ==
    LET ps == FindIter(s, pat, insensitive, 0)
    IN  [j \in 1..Len(ps) |->
            IF GroupNum(pat) = 0 THEN Group0(s, pat, ps[j])
            ELSE IF GroupNum(pat) = 1 THEN MatchGroups(s, pat, ps[j])[1]
            ELSE MatchGroups(s, pat, ps[j])]

\* s.split(sep) for a one-character separator
RECURSIVE Split(_, _)
Split(s, sep) ==
    LET i == Index(s, <<sep>>, 0)
    IN  IF i = -1 THEN <<s>>
        ELSE <<Cut(s, 0, i)>> \o Split(Cut(s, i + 1, Len(s)), sep)

\* Python's seq[i]: the 1-based position it reads, 0 for IndexError.
PyIndex(n, i) ==
    IF i >= 0 /\ i < n THEN i + 1
    ELSE IF i < 0 /\ i + n >= 0 THEN i + n + 1
    ELSE 0

----------------------------------------------------------------------------
(* Pattern matcher: pygrep_parser, grouped_iter, pygrep_search.            *)
(* An outcome is a record: fatal is TRUE when print_err ended the call,    *)
(* out is the returned list otherwise.                                     *)

Fatal == [fatal |-> TRUE, out |-> <<>>]
Ok(list) == [fatal |-> FALSE, out |-> list]

\* pygrep_parser: split_str
SplitStr(pyreg) == IF Len(pyreg) >= 2 THEN Split(pyreg[2], " ") ELSE <<>>

\* reg_match[0][i - 1] inside grouped_iter: the first match is a tuple of
\* texts when the pattern has several groups and a text otherwise, of which
\* the subscript takes one character.  None stands for IndexError.
FirstMatchItem(first_match, group_num, i) ==
    LET k == PyIndex(Len(first_match), i - 1)
    IN  IF k = 0 THEN None
        ELSE IF group_num > 1 THEN Some(first_match[k])
        ELSE Some(<<first_match[k]>>)

\* every element of reg_match[0], as texts
FirstMatchItems(first_match, group_num) ==
    [k \in 1..Len(first_match) |->
        IF group_num > 1 THEN first_match[k] ELSE <<first_match[k]>>]

\* all_group after the loop  all_group = all_group + ' ' + item
RECURSIVE SpaceJoin(_)
SpaceJoin(items) ==
    IF items = <<>> THEN <<>> ELSE <<" ">> \o Head(items) \o SpaceJoin(Tail(items))

\* One line of grouped_iter: [fatal |-> IndexError raised, out |-> <<>> or
\* <<all_group[1:]>>].
GroupedLine(line, pat, insensitive, int_list) ==
    LET reg_match == FindAll(line, pat, insensitive)
    IN  IF reg_match = <<>> THEN Ok(<<>>)
        ELSE IF int_list # <<>>
        THEN LET items == [j \in 1..Len(int_list) |->
                             FirstMatchItem(reg_match[1], GroupNum(pat), int_list[j])]
             IN  IF \E j \in 1..Len(items) : items[j] = None THEN Fatal
                 ELSE Ok(<<Tail(SpaceJoin([j \in 1..Len(items) |-> items[j][1]]))>>)
        ELSE LET all_group == SpaceJoin(FirstMatchItems(reg_match[1], GroupNum(pat)))
             IN  Ok(<<IF all_group = <<>> THEN <<>> ELSE Tail(all_group)>>)

\* Runs a per-line step over the lines in order; the first line whose step
\* is fatal ends the run.
RECURSIVE grouped_iter(_, _, _, _)
grouped_iter(file_data, pat, insensitive, int_list) ==
    IF file_data = <<>> THEN Ok(<<>>)
    ELSE LET h == GroupedLine(Head(file_data), pat, insensitive, int_list)
         IN  IF h.fatal THEN Fatal
             ELSE LET t == grouped_iter(Tail(file_data), pat, insensitive, int_list)
                  IN  IF t.fatal THEN Fatal ELSE Ok(h.out \o t.out)

\* pygen_length == 1: the lines with at least one match
RECURSIVE WholeLines(_, _, _)
WholeLines(lines, pat, insensitive) ==
    IF lines = <<>> THEN <<>>
    ELSE (IF FindAll(Head(lines), pat, insensitive) # <<>>
          THEN <<Head(lines)>> ELSE <<>>)
         \o WholeLines(Tail(lines), pat, insensitive)

\* 'all' with one capture group: reg_match[0] of every line with a match
RECURSIVE FirstMatches(_, _, _)
FirstMatches(lines, pat, insensitive) ==
    IF lines = <<>> THEN <<>>
    ELSE LET reg_match == FindAll(Head(lines), pat, insensitive)
         IN  (IF reg_match # <<>> THEN <<reg_match[1]>> ELSE <<>>)
             \o FirstMatches(Tail(lines), pat, insensitive)

\* One line of the single-index loop:
\* reg_match[0][pos_val - 1] if group_num > 1 else reg_match[pos_val - 1]
SingleLine(line, pat, insensitive, pos_val) ==
    LET reg_match == FindAll(line, pat, insensitive)
    IN  IF reg_match = <<>> THEN Ok(<<>>)
        ELSE LET seq == IF GroupNum(pat) > 1 THEN reg_match[1] ELSE reg_match
                 k   == PyIndex(Len(seq), pos_val - 1)
             IN  IF k = 0 THEN Fatal ELSE Ok(<<seq[k]>>)

RECURSIVE SingleLoop(_, _, _, _)
SingleLoop(lines, pat, insensitive, pos_val) ==
    IF lines = <<>> THEN Ok(<<>>)
    ELSE LET h == SingleLine(Head(lines), pat, insensitive, pos_val)
         IN  IF h.fatal THEN Fatal
             ELSE LET t == SingleLoop(Tail(lines), pat, insensitive, pos_val)
                  IN  IF t.fatal THEN Fatal ELSE Ok(h.out \o t.out)

\* [int(i) for i in split_str]: None stands for ValueError
IntList(split_str) ==
    IF \E j \in 1..Len(split_str) : PyInt(split_str[j]) = None THEN None
    ELSE Some([j \in 1..Len(split_str) |-> PyInt(split_str[j])[1]])

\* pygrep_search(args, func_search, pos_val)
pygrep_search(a, func_search) ==
    LET pat       == a.pyreg[1]
        split_str == SplitStr(a.pyreg)
    IN  IF Len(a.pyreg) = 1
        THEN Ok(WholeLines(func_search, pat, a.insensitive))
        ELSE IF Len(a.pyreg) = 2
        THEN IF a.pyreg[2] = ALL
             THEN IF GroupNum(pat) > 1
                  THEN grouped_iter(func_search, pat, a.insensitive, <<>>)
                  ELSE IF GroupNum(pat) = 1
                  THEN Ok(FirstMatches(func_search, pat, a.insensitive))
                  ELSE Ok(<<>>)
             ELSE IF Len(split_str) = 1
             THEN IF PyInt(split_str[1]) = None THEN Fatal
                  ELSE SingleLoop(func_search, pat, a.insensitive,
                                  PyInt(split_str[1])[1])
             ELSE IF IntList(split_str) = None THEN Fatal
                  ELSE grouped_iter(func_search, pat, a.insensitive,
                                    IntList(split_str)[1])
        ELSE Ok(<<>>)

----------------------------------------------------------------------------
(* Mapped-match path: mmap_reader and pygrep_mmap. *)

\* The bytes of the file: every line followed by its terminator.
Buffer(lines) == Flatten([i \in 1..Len(lines) |-> lines[i] \o <<"\n">>])

\* mm.rfind(c, 0, hi): the greatest position below hi that holds c, or -1
RECURSIVE RFind(_, _, _)
RFind(mm, c, hi) ==
    IF hi <= 0 THEN -1
    ELSE IF mm[hi] = c THEN hi - 1
    ELSE RFind(mm, c, hi - 1)

\* First outcome that is fatal makes the whole run fatal; otherwise the
\* outputs are appended in order.
Gather(outcomes) ==
    IF \E j \in 1..Len(outcomes) : outcomes[j].fatal THEN Fatal
    ELSE Ok(Flatten([j \in 1..Len(outcomes) |-> outcomes[j].out]))

\* mmap_reader(criteria='line'): for every match the line that owns it
MmapLines(mm, pat, insensitive) ==
    LET ps == FindIter(mm, pat, insensitive, 0)
    IN  [j \in 1..Len(ps) |->
            LET start == Max2(0, RFind(mm, "\n", ps[j]) + 1)
                found == Index(mm, <<"\n">>, ps[j] + Len(pat.atoms))
                end   == IF found = -1 THEN Len(mm) ELSE found
            IN  Cut(mm, start, end)]

\* mmap_reader(criteria='match'): match.groups() of every match
MmapGroups(mm, pat, insensitive) ==
    LET ps == FindIter(mm, pat, insensitive, 0)
    IN  [j \in 1..Len(ps) |-> MatchGroups(mm, pat, ps[j])]

\* The index-list loop of pygrep_mmap for one match: line[i - 1] of every i
MmapPick(groups, int_list) ==
    LET ks == [j \in 1..Len(int_list) |-> PyIndex(Len(groups), int_list[j] - 1)]
    IN  IF \E j \in 1..Len(ks) : ks[j] = 0 THEN Fatal
        ELSE Ok(<<Tail(SpaceJoin([j \in 1..Len(ks) |-> groups[ks[j]]]))>>)

\* pygrep_mmap(args, file_path, pos_val), over the lines of the file
pygrep_mmap(a, lines) ==
    LET pat       == a.pyreg[1]
        split_str == SplitStr(a.pyreg)
        mm        == Buffer(lines)
        gs        == MmapGroups(mm, pat, a.insensitive)
    IN  IF Len(a.pyreg) = 1 THEN Ok(MmapLines(mm, pat, a.insensitive))
        ELSE IF Len(a.pyreg) = 2
        THEN IF a.pyreg[2] = ALL
             THEN IF GroupNum(pat) > 1
                  THEN Ok([j \in 1..Len(gs) |-> Tail(SpaceJoin(gs[j]))])
                  ELSE IF GroupNum(pat) = 1
                  THEN Ok([j \in 1..Len(gs) |-> gs[j][1]])
                  ELSE Ok(<<>>)
             ELSE IF Len(split_str) = 1
             THEN IF PyInt(split_str[1]) = None THEN Fatal
                  ELSE Gather([j \in 1..Len(gs) |->
                         LET k == PyIndex(Len(gs[j]), PyInt(split_str[1])[1] - 1)
                         IN  IF k = 0 THEN Fatal ELSE Ok(<<gs[j][k]>>)])
             ELSE IF IntList(split_str) = None THEN Fatal
                  ELSE Gather([j \in 1..Len(gs) |->
                                  MmapPick(gs[j], IntList(split_str)[1])])
        ELSE Ok(<<>>)

----------------------------------------------------------------------------
(* Line sources: unified_input_reader and chunked_file_reader. *)

\* unified_input_reader: every line of the file, stripped
unified_input_reader(lines) == [i \in 1..Len(lines) |-> Strip(lines[i])]

\* chunked_file_reader without the final  if chunk: yield chunk
RECURSIVE chunked_file_reader_NoTail(_, _)
chunked_file_reader_NoTail(chunk_size, lines) ==
    IF Len(lines) < chunk_size THEN <<>>
    ELSE <<unified_input_reader(SubSeq(lines, 1, chunk_size))>>
         \o chunked_file_reader_NoTail(chunk_size,
                                       SubSeq(lines, chunk_size + 1, Len(lines)))

\* chunked_file_reader: the stripped lines in consecutive chunks of
\* chunk_size lines, the last one shorter when lines remain
RECURSIVE chunked_file_reader(_, _)
chunked_file_reader(chunk_size, lines) ==
    IF lines = <<>> THEN <<>>
    ELSE IF Len(lines) <= chunk_size
    THEN <<unified_input_reader(lines)>>
    ELSE <<unified_input_reader(SubSeq(lines, 1, chunk_size))>>
         \o chunked_file_reader(chunk_size,
                                SubSeq(lines, chunk_size + 1, Len(lines)))

----------------------------------------------------------------------------
(* sense_check and omit_check. *)

\* sense_check(args): TRUE when it ends in print_err.  The input is a file
\* that exists.
SenseFatal(a) ==
    \/ a.start = None /\ a.pyreg = None
    \/ a.pyreg # None /\ Len(a.pyreg) > 2
    \/ a.start # None /\ Len(a.start) > 2
    \/ a.start = None /\ a.pyreg # None
         /\ (a.omitall \/ a.omitfirst # None \/ a.omitlast # None)
    \/ a.omitfirst # None /\ a.start = None
    \/ a.omitlast # None /\ a.end = None
    \/ a.omitall /\ (a.omitfirst # None \/ a.omitlast # None)
    \/ a.start # None /\ ~(Len(a.start) > 1)
         /\ (a.omitall \/ a.omitfirst # None \/ a.omitlast # None)

\* omit_check(args=args): TRUE when it ends in print_err
OmitFatal(a) == a.omitall /\ (a.start = None \/ a.end = None)

\* omit_check(args=args): the pair (first, last)
omit_check(a) ==
    IF a.omitall
    THEN <<Some(Len(a.start[1])), Some(0 - Len(a.end[1]))>>
    ELSE <<IF a.omitfirst # None THEN Some(a.omitfirst[1]) ELSE None,
           IF a.omitlast # None THEN Some(0 - a.omitlast[1]) ELSE None>>

----------------------------------------------------------------------------
(* Line-range selector: line_func on a list.                               *)
(* The outcome is a record: status is "ok" when the call returns, "fatal"  *)
(* when print_err ends it and "crash" when an exception nothing catches    *)
(* (IndexError, UnboundLocalError) ends it; value is the first returned    *)
(* value (a list, or one fragment when line_range is FALSE).               *)

LfOk(value, range) == [status |-> "ok", value |-> value, line_range |-> range]
LfFatal == [status |-> "fatal", value |-> <<>>, line_range |-> FALSE]
LfCrash == [status |-> "crash", value |-> <<>>, line_range |-> FALSE]

\* The branch a-b with the two numbers taken in the order given: no min/max.
RangePlain_NoSwap(start_end_, num1, num2) ==
    LET n == Len(start_end_)
    IN  IF n <= Max2(num1, num2) - Min2(num1, num2) THEN LfOk(start_end_, TRUE)
        ELSE IF num2 >= 1 /\ num2 > n THEN LfCrash
        ELSE LfOk(Cut(start_end_, Max2(num1, 1) - 1, num2), TRUE)

\* The branch for a range expression a-b without '$'
RangePlain(start_end_, num1, num2) ==
    LET n        == Len(start_end_)
        num_diff == Max2(num1, num2) - Min2(num1, num2)
        low_num  == Min2(num1, num2)
        high_num == Max2(num1, num2)
    IN  IF n <= num_diff THEN LfOk(start_end_, TRUE)
        ELSE IF high_num >= 1 /\ high_num > n THEN LfCrash
        ELSE LfOk(Cut(start_end_, Max2(low_num, 1) - 1, high_num), TRUE)

\* The branch for a range expression that holds '$'
RangeDollar(start_end_, split, get_int) ==
    LET n == Len(start_end_)
    IN  IF n <= get_int THEN LfOk(start_end_, TRUE)
        ELSE IF split[1] = <<"$">>
        THEN LfOk(Cut(start_end_, n - Max2(PyInt(split[2])[1], 0), n), TRUE)
        ELSE IF split[2] = <<"$">>
        THEN LET line_count == n - PyInt(split[1])[1] + 2
             IN  IF line_count > n THEN LfCrash
                 ELSE LfOk(Cut(start_end_, n - Max2(line_count, 0), n), TRUE)
        ELSE LfOk(<<>>, TRUE)

\* line_func(start_end_, args) for a list start_end_; line_num is args.lines[0]
line_func(start_end_, line_num) ==
    LET n == Len(start_end_)
    IN  IF Contains(line_num, <<"-">>)
        THEN LET split   == Split(line_num, "-")
                 dollar0 == Contains(split[1], <<"$">>)
                 dollar1 == Contains(split[2], <<"$">>)
                 int0    == PyInt(split[1])
                 int1    == PyInt(split[2])
                 get_int == IF ~dollar1 THEN int1
                            ELSE IF ~dollar0 THEN int0 ELSE None
             IN  IF (~dollar0 /\ int0 = None) \/ (~dollar1 /\ int1 = None)
                 THEN LfFatal
                 ELSE IF Contains(line_num, <<"$">>)
                 THEN IF get_int = None THEN LfCrash
                      ELSE RangeDollar(start_end_, split, get_int[1])
                 ELSE RangePlain(start_end_, int0[1], int1[1])
        ELSE LET get_int == PyInt(line_num)
             IN  IF get_int # None /\ n < get_int[1] THEN LfFatal
                 ELSE IF get_int = None /\ line_num # <<"$">> THEN LfFatal
                 ELSE LET k == IF line_num = <<"$">> THEN PyIndex(n, -1)
                               ELSE PyIndex(n, get_int[1] - 1)
                      IN  IF k = 0 THEN LfCrash
                          ELSE LfOk(start_end_[k], FALSE)

----------------------------------------------------------------------------
(* main_seq, one action per stage. *)

\* sense_check and omit_check at the head of main_seq
MainStart ==
    /\ pc = "start"
    /\ IF SenseFatal(args) \/ OmitFatal(args)
       THEN /\ pc' = "fatal"
            /\ UNCHANGED <<checkFirst, checkLast>>
       ELSE /\ checkFirst' = omit_check(args)[1]
            /\ checkLast' = omit_check(args)[2]
            /\ pc' = IF args.start # None THEN "positional" ELSE "pyreg"
    /\ UNCHANGED <<args, file, file_list, pattern_search, chunks, futures,
                   results, workers, done_order, collected, start_end,
                   line_range, gen, resume, output>>

\* Where main_seq goes after the positional matcher returned
AfterPositional(a) == IF a.pyreg # None THEN "pyreg" ELSE "post"

\* if args.insensitive == False: pattern_search = normal_search(...)
NormalSearchStep ==
    /\ pc = "positional"
    /\ args.insensitive = FALSE
    /\ file_list' = unified_input_reader(file)
    /\ args' = [args EXCEPT !.start = StartDefault(@), !.end = EndDefault(@)]
    /\ IF OccFatal(args'.start, args'.end)
       THEN /\ pc' = "fatal"
            /\ UNCHANGED pattern_search
       ELSE /\ pattern_search' =
                  normal_search(file_list', args, checkFirst, checkLast)
            /\ pc' = AfterPositional(args)
    /\ UNCHANGED <<file, checkFirst, checkLast, chunks, futures, results,
                   workers, done_order, collected, start_end,
                   line_range, gen, resume, output>>

\* else: pattern_search = lower_search(...)
LowerSearchStep ==
    /\ pc = "positional"
    /\ args.insensitive = TRUE
    /\ file_list' = unified_input_reader(file)
    /\ args' = [args EXCEPT !.start = StartDefault(@), !.end = EndDefault(@)]
    /\ IF OccFatal(args'.start, args'.end)
       THEN /\ pc' = "fatal"
            /\ UNCHANGED pattern_search
       ELSE /\ pattern_search' =
                  lower_search(file_list', args, checkFirst, checkLast)
            /\ pc' = AfterPositional(args)
    /\ UNCHANGED <<file, checkFirst, checkLast, chunks, futures, results,
                   workers, done_order, collected, start_end,
                   line_range, gen, resume, output>>

\* The regular-expression stage without --multi:
\*   if args.start: file_list = pattern_search
\*   pattern_search = pygrep_mmap(args=args, file_path=args.file, ...)
PyregMmap ==
    /\ pc = "pyreg"
    /\ args.multi = None
    /\ file_list' = IF args.start # None THEN pattern_search ELSE file_list
    /\ IF pygrep_mmap(args, file).fatal
       THEN /\ pc' = "fatal"
            /\ UNCHANGED pattern_search
       ELSE /\ pattern_search' = pygrep_mmap(args, file).out
            /\ pc' = "post"
    /\ UNCHANGED <<args, file, checkFirst, checkLast, chunks, futures, results,
                   workers, done_order, collected, start_end,
                   line_range, gen, resume, output>>

----------------------------------------------------------------------------
(* multi_cpu is a generator function: the call in main_seq only creates    *)
(* the generator, and its body runs when main_seq or its caller first      *)
(* iterates over it.  Then the chunks are read and submitted in order,     *)
(* every idle worker of the pool takes the oldest chunk not yet taken, the *)
(* workers finish in any order, and once the pool has shut down the        *)
(* results are yielded chunk by chunk, in submission order.                *)

n_cores == args.multi[1]

\* The regular-expression stage with --multi:
\*   if args.start: file_list = pattern_search
\*   pattern_search = multi_cpu(args=args, file_path=args.file, ...)
\* pattern_search becomes a generator; in the model it holds the fragments
\* the generator has yielded so far.
MultiCall ==
    /\ pc = "pyreg"
    /\ args.multi # None
    /\ file_list' = IF args.start # None THEN pattern_search ELSE file_list
    /\ pattern_search' = <<>>
    /\ gen' = "fresh"
    /\ pc' = "post"
    /\ UNCHANGED <<args, file, checkFirst, checkLast, chunks, futures, results,
                   workers, done_order, collected, start_end, line_range,
                   resume, output>>

\* The first next() on the generator: the body of multi_cpu starts.
\*   result = executor.map(worker, chunked_file_reader(**reader_args))
MultiSubmit ==
    /\ pc = "iterate"
    /\ chunks' = chunked_file_reader(ChunkSize, file)
    /\ futures' = [c \in 1..Len(chunks') |-> "pending"]
    /\ results' = [c \in 1..Len(chunks') |-> Ok(<<>>)]
    /\ workers' = [w \in 1..n_cores |-> 0]
    /\ done_order' = <<>>
    /\ pattern_search' = <<>>
    /\ collected' = 0
    /\ pc' = "pool"
    /\ UNCHANGED <<args, file, checkFirst, checkLast, file_list, start_end,
                   line_range, gen, resume, output>>

\* The oldest chunk that no worker has taken, 0 when there is none
NextPending ==
    IF \E c \in 1..Len(futures) : futures[c] = "pending"
    THEN CHOOSE c \in 1..Len(futures) :
            /\ futures[c] = "pending"
            /\ \A d \in 1..(c - 1) : futures[d] # "pending"
    ELSE 0

\* An idle worker process takes the next call item off the queue
WorkerTake(w) ==
    /\ pc = "pool"
    /\ workers[w] = 0
    /\ NextPending # 0
    /\ futures' = [futures EXCEPT ![NextPending] = "running"]
    /\ workers' = [workers EXCEPT ![w] = NextPending]
    /\ UNCHANGED <<args, file, pc, checkFirst, checkLast, file_list,
                   pattern_search, chunks, results, done_order, collected,
                   start_end, line_range, gen, resume, output>>

\* worker(line_list): pygrep_search over the chunk; the list it returns, or
\* the SystemExit that print_err raised, is sent back as the future's result
WorkerFinish(w) ==
    /\ pc = "pool"
    /\ workers[w] # 0
    /\ results' = [results EXCEPT ![workers[w]] = pygrep_search(args, chunks[workers[w]])]
    /\ futures' = [futures EXCEPT ![workers[w]] = "done"]
    /\ workers' = [workers EXCEPT ![w] = 0]
    /\ done_order' = Append(done_order, workers[w])
    /\ UNCHANGED <<args, file, pc, checkFirst, checkLast, file_list,
                   pattern_search, chunks, collected, start_end,
                   line_range, gen, resume, output>>

\* The with block ends: shutdown(wait=True) returns once every future is done
PoolShutdown ==
    /\ pc = "pool"
    /\ \A c \in 1..Len(futures) : futures[c] = "done"
    /\ pc' = "collect"
    /\ UNCHANGED <<args, file, checkFirst, checkLast, file_list,
                   pattern_search, chunks, futures, results, workers,
                   done_order, collected, start_end,
                   line_range, gen, resume, output>>

\* for sublist in result: for r in sublist: yield r
\* The next chunk's result is taken; a worker's SystemExit is raised here
\* and ends the run.  When the consumer is the caller's loop
\* (for i in main_seq(): print(i)) every fragment is printed as it is yielded.
CollectNext ==
    /\ pc = "collect"
    /\ collected < Len(chunks)
    /\ IF results[collected + 1].fatal
       THEN /\ pc' = "fatal"
            /\ UNCHANGED <<pattern_search, collected, output>>
       ELSE /\ pattern_search' = pattern_search \o results[collected + 1].out
            /\ output' = IF resume = "printed"
                         THEN output \o results[collected + 1].out
                         ELSE output
            /\ collected' = collected + 1
            /\ pc' = pc
    /\ UNCHANGED <<args, file, checkFirst, checkLast, file_list, chunks,
                   futures, results, workers, done_order, start_end,
                   line_range, gen, resume>>

\* The generator is exhausted: its consumer goes on
CollectEnd ==
    /\ pc = "collect"
    /\ collected = Len(chunks)
    /\ pc' = resume
    /\ gen' = "spent"
    /\ UNCHANGED <<args, file, checkFirst, checkLast, file_list,
                   pattern_search, chunks, futures, results, workers,
                   done_order, collected, start_end,
                   line_range, resume, output>>

----------------------------------------------------------------------------
(* main_seq after the matchers: the empty check, unique, sort. *)

\* if not pattern_search: print('No Pattern Found'); exit(0)
\* A generator object is true whatever it is going to yield.
NoPatternFound ==
    <<"N", "o", " ", "P", "a", "t", "t", "e", "r", "n", " ", "F", "o", "u",
      "n", "d">>

EmptyCheck ==
    /\ pc = "post"
    /\ IF gen = "none" /\ pattern_search = <<>>
       THEN /\ output' = Append(output, NoPatternFound)
            /\ pc' = "nomatch"
       ELSE /\ pc' = "unique"
            /\ UNCHANGED output
    /\ UNCHANGED <<args, file, checkFirst, checkLast, file_list,
                   pattern_search, chunks, futures, results, workers,
                   done_order, collected, start_end, line_range, gen, resume>>

\* list(dict.fromkeys(list)): the first occurrence of every element, in order
RECURSIVE FromKeys(_)
FromKeys(list) ==
    IF list = <<>> THEN <<>>
    ELSE LET init == FromKeys(SubSeq(list, 1, Len(list) - 1))
             last == list[Len(list)]
         IN  IF \E i \in 1..Len(init) : init[i] = last THEN init
             ELSE Append(init, last)

\* if args.unique: pattern_search = list(dict.fromkeys(pattern_search))
\* Over a generator, list() first runs it to its end.
UniqueStep ==
    /\ pc = "unique"
    /\ IF ~args.unique
       THEN /\ pc' = "sort"
            /\ UNCHANGED <<pattern_search, gen, resume>>
       ELSE IF gen = "fresh"
       THEN /\ pc' = "iterate"
            /\ resume' = "unique"
            /\ UNCHANGED <<pattern_search, gen>>
       ELSE /\ pattern_search' = FromKeys(pattern_search)
            /\ gen' = "none"
            /\ pc' = "sort"
            /\ UNCHANGED resume
    /\ UNCHANGED <<args, file, checkFirst, checkLast, file_list, chunks,
                   futures, results, workers, done_order, collected,
                   start_end, line_range, output>>

\* The characters of the model in the order of their code points
Ascii ==
    <<"\n", " ", "$", "-", ".", "0", "1", "2", "3", "4", "5", "6", "7", "8",
      "9", "=", "A", "B", "C", "F", "L", "N", "P", "Z", "a", "b", "c", "d",
      "e", "f", "g", "h", "i", "l", "n", "o", "r", "s", "t", "u", "x">>

\* ord(c)
Ord(c) == CHOOSE k \in 1..Len(Ascii) : Ascii[k] = c

\* s < t for two texts
RECURSIVE TextLess(_, _)
TextLess(s, t) ==
    IF t = <<>> THEN FALSE
    ELSE IF s = <<>> THEN TRUE
    ELSE IF s[1] = t[1] THEN TextLess(Tail(s), Tail(t))
    ELSE Ord(s[1]) < Ord(t[1])

\* list.sort(): the stable ascending order of list under Less
\* less[i][j] tells whether list[i] is ordered strictly before list[j].
Sorted(list, less) ==
    LET n == Len(list)
        rank(i) == 1 + Cardinality({j \in 1..n :
                          \/ less[j][i]
                          \/ ~less[i][j] /\ j < i})
    IN  [k \in 1..n |-> list[CHOOSE i \in 1..n : rank(i) = k]]

\* The order of main_seq's plain sort; desc for reverse=True
ByText(list, desc) ==
    [i \in 1..Len(list) |-> [j \in 1..Len(list) |->
        IF desc THEN TextLess(list[j], list[i]) ELSE TextLess(list[i], list[j])]]

\* test_re.findall(s) is not empty, for
\* test_re = ^[\d]{1,3}\.[\d]{1,3}\.[\d]{1,3}\.[\d]{1,3}$
\* ($ also matches before a line terminator that ends the text)
IsIPLike(s) ==
    LET t == IF s # <<>> /\ s[Len(s)] = "\n" THEN SubSeq(s, 1, Len(s) - 1)
             ELSE s
        octets == Split(t, ".")
    IN  /\ Len(octets) = 4
        /\ \A k \in 1..4 : AllDigits(octets[k]) /\ Len(octets[k]) <= 3

\* ipaddress.IPv4Address(s) does not raise AddressValueError: four octets of
\* one to three digits, none above 255, none with a leading zero
ValidIP(s) ==
    LET octets == Split(s, ".")
    IN  /\ Len(octets) = 4
        /\ \A k \in 1..4 :
              /\ AllDigits(octets[k])
              /\ Len(octets[k]) <= 3
              /\ DigitsVal(octets[k], 0) <= 255
              /\ Len(octets[k]) > 1 => octets[k][1] # "0"

\* ipaddress.IPv4Address(s) as its four octet values
IPKey(s) ==
    LET octets == Split(s, ".")
    IN  [k \in 1..4 |-> DigitsVal(octets[k], 0)]

\* IPv4Address(s) < IPv4Address(t): the addresses compare as the numbers
\* their octets spell in base 256, that is octet by octet from the left
IPLess(s, t) ==
    \E k \in 1..4 :
        /\ IPKey(s)[k] < IPKey(t)[k]
        /\ \A j \in 1..(k - 1) : IPKey(s)[j] = IPKey(t)[j]

\* The order of the sort with key=ipaddress.IPv4Address
ByIP(list, desc) ==
    [i \in 1..Len(list) |-> [j \in 1..Len(list) |->
        IF desc THEN IPLess(list[j], list[i]) ELSE IPLess(list[i], list[j])]]

\* pattern_search after the sort block for a list whose keys can be computed
SortBlock(list, test_ip, rev) ==
    LET asc == IF test_ip
               THEN Sorted(list, ByIP(list, FALSE))
               ELSE Sorted(list, ByText(list, FALSE))
    IN  IF ~rev THEN asc
        ELSE IF test_ip
        THEN Sorted(asc, ByIP(asc, TRUE))
        ELSE Sorted(asc, ByText(asc, TRUE))

\* if args.counts != True and args.sort: ... pattern_search.sort(...)
\* pattern_search[0] raises TypeError on a generator and IndexError on an
\* empty list; IPv4Address raises on a fragment that is not an address.
SortStep ==
    /\ pc = "sort"
    /\ IF ~(~args.counts /\ args.sort)
       THEN /\ pc' = "counts"
            /\ UNCHANGED pattern_search
       ELSE IF gen # "none" \/ pattern_search = <<>>
       THEN /\ pc' = "crash"
            /\ UNCHANGED pattern_search
       ELSE LET test_ip == IsIPLike(pattern_search[1])
            IN  IF test_ip /\ \E i \in 1..Len(pattern_search) :
                                  ~ValidIP(pattern_search[i])
                THEN /\ pc' = "crash"
                     /\ UNCHANGED pattern_search
                ELSE /\ pattern_search' =
                          SortBlock(pattern_search, test_ip, args.rev)
                     /\ pc' = "counts"
    /\ UNCHANGED <<args, file, checkFirst, checkLast, file_list, chunks,
                   futures, results, workers, done_order, collected,
                   start_end, line_range, gen, resume, output>>

----------------------------------------------------------------------------
(* counts, and line_func on the frequency mapping.  A dict is modelled as  *)
(* the sequence of its <<key, value>> pairs in iteration order.            *)

\* reversed(seq)
Reverse(seq) == [k \in 1..Len(seq) |-> seq[Len(seq) + 1 - k]]

\* Counter(list): every distinct element with the number of its occurrences,
\* in the order of first occurrence
Counter(list) ==
    LET keys == FromKeys(list)
    IN  [k \in 1..Len(keys) |->
           <<keys[k], Cardinality({i \in 1..Len(list) : list[i] = keys[k]})>>]

\* Counter.most_common(): by falling count, equal counts in dict order
most_common(d) ==
    Sorted(d, [i \in 1..Len(d) |-> [j \in 1..Len(d) |-> d[i][2] > d[j][2]]])

\* str(n) for n >= 0
RECURSIVE IntText(_)
IntText(n) ==
    IF n < 10 THEN <<DigitChar(n)>>
    ELSE IntText(n \div 10) \o <<DigitChar(n % 10)>>

\* f'{key:{padding}}Line-Counts = {count}'
LineCounts(pair, padding) ==
    pair[1] \o [k \in 1..(padding - Len(pair[1])) |-> " "]
    \o <<"L", "i", "n", "e", "-", "C", "o", "u", "n", "t", "s", " ", "=", " ">>
    \o IntText(pair[2])

\* rev_print(pattern_search, padding)
rev_print(d, padding) ==
    [k \in 1..Len(d) |-> LineCounts(Reverse(d)[k], padding)]

\* The plain range a-b of line_func on a dict: walking the dict backwards,
\* every key at a position <= max is taken and the walk returns at the first
\* position <= min; a walk that does not return falls through to the list
\* code, which subscripts the dict (KeyError) unless its loop is empty.
DictPlain(d, num1, num2) ==
    LET n  == Len(d)
        mn == Min2(num1, num2)
        mx == Max2(num1, num2)
        lo == Min2(mn, n)
        hi == Min2(mx, n)
    IN  IF n <= mx - mn THEN LfOk(d, TRUE)
        ELSE IF mn >= 1
        THEN LfOk([k \in 1..(hi - lo + 1) |-> d[hi + 1 - k]], TRUE)
        ELSE IF mx >= 1 THEN LfCrash
        ELSE LfOk(<<>>, TRUE)

\* The ranges with '$' of line_func on a dict
DictDollar(d, split, get_int) ==
    LET n == Len(d)
    IN  IF n <= get_int THEN LfOk(d, TRUE)
        ELSE IF split[1] = <<"$">>
        THEN LfOk(SubSeq(Reverse(d), 1, Max2(PyInt(split[2])[1], 1)), TRUE)
        ELSE IF split[2] = <<"$">>
        THEN LET line_count == n - PyInt(split[1])[1] + 1
             IN  IF line_count > n THEN LfCrash
                 ELSE LfOk(SubSeq(Reverse(d), 1, line_count), TRUE)
        ELSE LfOk(<<>>, TRUE)

\* line_func(start_end, args) for a dict start_end
line_func_dict(d, line_num) ==
    LET n == Len(d)
    IN  IF Contains(line_num, <<"-">>)
        THEN LET split   == Split(line_num, "-")
                 dollar0 == Contains(split[1], <<"$">>)
                 dollar1 == Contains(split[2], <<"$">>)
                 int0    == PyInt(split[1])
                 int1    == PyInt(split[2])
                 get_int == IF ~dollar1 THEN int1
                            ELSE IF ~dollar0 THEN int0 ELSE None
             IN  IF (~dollar0 /\ int0 = None) \/ (~dollar1 /\ int1 = None)
                 THEN LfFatal
                 ELSE IF Contains(line_num, <<"$">>)
                 THEN IF get_int = None THEN LfCrash
                      ELSE DictDollar(d, split, get_int[1])
                 ELSE DictPlain(d, int0[1], int1[1])
        ELSE LET get_int == PyInt(line_num)
             IN  IF get_int # None /\ n < get_int[1] THEN LfFatal
                 ELSE IF get_int = None /\ line_num # <<"$">> THEN LfFatal
                 ELSE IF line_num = <<"$">>
                 THEN (IF n = 0 THEN LfCrash ELSE LfOk(<<d[n]>>, FALSE))
                 ELSE IF get_int[1] >= 1 THEN LfOk(<<d[get_int[1]]>>, FALSE)
                 ELSE LfCrash

\* counts(count_search, args): status "ok" and the returned list of lines,
\* "fatal" when line_func ends in print_err, "crash" for an exception that
\* nothing catches (max() of an empty sequence, those of line_func)
counts(count_search, a) ==
    LET counter == Counter(count_search)
        padding == 4 + CHOOSE m \in 0..100 :
                          /\ \E k \in 1..Len(counter) : Len(counter[k][1]) = m
                          /\ \A k \in 1..Len(counter) : Len(counter[k][1]) <= m
        sorted  == IF a.sort THEN most_common(counter) ELSE counter
        picked  == line_func_dict(IF a.rev THEN Reverse(sorted) ELSE sorted,
                                  a.lines[1])
    IN  IF counter = <<>> THEN [status |-> "crash", value |-> <<>>]
        ELSE IF a.lines # None
        THEN (IF picked.status # "ok"
              THEN [status |-> picked.status, value |-> <<>>]
              ELSE [status |-> "ok", value |-> rev_print(picked.value, padding)])
        ELSE IF a.rev
        THEN [status |-> "ok", value |-> rev_print(sorted, padding)]
        ELSE [status |-> "ok",
              value |-> [k \in 1..Len(sorted) |-> LineCounts(sorted[k], padding)]]

\* if args.counts: return counts(count_search = pattern_search, args=args)
\* Counter() over a generator first runs it to its end.
CountsStep ==
    /\ pc = "counts"
    /\ IF ~args.counts
       THEN /\ pc' = "lines"
            /\ UNCHANGED <<pattern_search, gen, resume>>
       ELSE IF gen = "fresh"
       THEN /\ pc' = "iterate"
            /\ resume' = "counts"
            /\ UNCHANGED <<pattern_search, gen>>
       ELSE LET r == counts(pattern_search, args)
            IN  /\ pc' = IF r.status = "ok" THEN "done" ELSE r.status
                /\ pattern_search' = IF r.status = "ok" THEN r.value
                                     ELSE pattern_search
                /\ gen' = "none"
                /\ UNCHANGED resume
    /\ UNCHANGED <<args, file, checkFirst, checkLast, file_list, chunks,
                   futures, results, workers, done_order, collected,
                   start_end, line_range, output>>

\* if args.lines: ... line_func(start_end=pattern_search, args=args) when
\* pattern_search is a generator: print_err for an expression that is
\* rejected before the length is asked for, otherwise len() or the
\* subscript raises TypeError.
LineFuncGenerator ==
    /\ pc = "lines"
    /\ args.lines # None
    /\ gen # "none"
    /\ pc' = IF /\ line_func(<<>>, args.lines[1]).status = "fatal"
                /\ (Contains(args.lines[1], <<"-">>) \/ PyInt(args.lines[1]) = None)
             THEN "fatal" ELSE "crash"
    /\ UNCHANGED <<args, file, checkFirst, checkLast, file_list,
                   pattern_search, chunks, futures, results, workers,
                   done_order, collected, start_end, line_range, gen, resume,
                   output>>

\* else: return pattern_search
ReturnAll ==
    /\ pc = "lines"
    /\ args.lines = None
    /\ pc' = "done"
    /\ UNCHANGED <<args, file, checkFirst, checkLast, file_list,
                   pattern_search, chunks, futures, results, workers,
                   done_order, collected, start_end, line_range, gen, resume,
                   output>>

\* for i in main_seq(): print(i)
\* A returned list is printed element by element, a returned generator is
\* run and its fragments are printed as they are yielded, and the single
\* fragment that line_func returns for an expression without a range is a
\* text, of which the loop prints every character on a line of its own.
PrintResult ==
    /\ pc = "done"
    /\ IF gen = "fresh"
       THEN /\ pc' = "iterate"
            /\ resume' = "printed"
            /\ UNCHANGED output
       ELSE /\ output' =
                  IF args.lines # None /\ ~args.counts /\ ~line_range
                  THEN [k \in 1..Len(pattern_search) |-> <<pattern_search[k]>>]
                  ELSE pattern_search
            /\ pc' = "printed"
            /\ UNCHANGED resume
    /\ UNCHANGED <<args, file, checkFirst, checkLast, file_list,
                   pattern_search, chunks, futures, results, workers,
                   done_order, collected, start_end, line_range, gen>>

----------------------------------------------------------------------------
(* The positional specification: main_seq with --start and without        *)
(* --pyreg, over every file and configuration within the bounds.          *)

BaseArgs ==
    [start |-> None, end |-> None, insensitive |-> FALSE,
     omitfirst |-> None, omitlast |-> None, omitall |-> FALSE,
     pyreg |-> None, lines |-> None, multi |-> None,
     sort |-> FALSE, rev |-> FALSE, unique |-> FALSE, counts |-> FALSE]

\* Sequences over S of length lo..hi
SeqsOf(S, lo, hi) == UNION {[1..n -> S] : n \in lo..hi}

PosAlphabet == {"a", "b", "A"}
PosLines == SeqsOf(PosAlphabet, 0, MaxLineLen)
\* A file is a first line, any of PosLines, followed by up to
\* MaxPosLines - 1 further lines out of MoreLines.
MoreLines == {<<"b", "a", "A", "a">>}
PosFiles == {<<l>> \o m : l \in PosLines, m \in SeqsOf(MoreLines, 0, MaxPosLines - 1)}
PosTokens == {<<"a">>, <<"A">>, <<"b">>, <<"a", "a">>, <<"a", "b">>}
PosOccs == {ALL} \cup {<<DigitChar(n)>> : n \in 1..MaxOcc}

\* A token alone, or a token and its occurrence
TokenArgs == {<<t>> : t \in PosTokens}
             \cup {<<t, o>> : t \in PosTokens, o \in PosOccs}

InitCommon ==
    /\ pc = "start"
    /\ checkFirst = None
    /\ checkLast = None
    /\ file_list = <<>>
    /\ pattern_search = <<>>
    /\ chunks = <<>>
    /\ futures = <<>>
    /\ results = <<>>
    /\ workers = <<>>
    /\ done_order = <<>>
    /\ collected = 0
    /\ start_end = <<>>
    /\ line_range = FALSE
    /\ gen = "none"
    /\ resume = "done"
    /\ output = <<>>

InitPos ==
    /\ file \in PosFiles
    /\ \E st \in TokenArgs, en \in {None} \cup TokenArgs, ins \in BOOLEAN :
          args = [BaseArgs EXCEPT !.start = st, !.end = en,
                                  !.insensitive = ins]
    /\ InitCommon

NextPos == MainStart \/ NormalSearchStep \/ LowerSearchStep

SpecPos == InitPos /\ [][NextPos]_vars

----------------------------------------------------------------------------
(* The parallel specification: main_seq with --pyreg and --multi, without *)
(* --start.                                                                *)

Dot == {"a", "b", "A", " "}

\* The patterns  a   ab   (a.)   (a)(.)
RegexSet ==
    { [atoms |-> <<{"a"}>>, groups |-> <<>>],
      [atoms |-> <<{"a"}, {"b"}>>, groups |-> <<>>],
      [atoms |-> <<{"a"}, Dot>>, groups |-> <<<<1, 2>>>>],
      [atoms |-> <<{"a"}, Dot>>, groups |-> <<<<1, 1>>, <<2, 2>>>>] }

\* The group selectors  all   1   2   3   "1 2"   "2 1"   "1 3"
SelectorSet ==
    { ALL, <<"1">>, <<"2">>, <<"3">>, <<"1", " ", "2">>, <<"2", " ", "1">>,
      <<"1", " ", "3">> }

PyregArgs == {<<r>> : r \in RegexSet}
             \cup {<<r, sel>> : r \in RegexSet, sel \in SelectorSet}

ParLines == {<<"b">>, <<"a", "b">>, <<"a", "b", "a", "a">>}
ParFiles == SeqsOf(ParLines, 0, MaxParLines)

InitPar ==
    /\ file \in ParFiles
    /\ \E py \in PyregArgs, n \in 1..MaxWorkers :
          args = [BaseArgs EXCEPT !.pyreg = py, !.multi = <<n>>]
    /\ InitCommon

NextPar ==
    \/ MainStart
    \/ MultiCall
    \/ EmptyCheck
    \/ UniqueStep
    \/ SortStep
    \/ CountsStep
    \/ ReturnAll
    \/ PrintResult
    \/ MultiSubmit
    \/ \E w \in 1..Len(workers) : WorkerTake(w)
    \/ \E w \in 1..Len(workers) : WorkerFinish(w)
    \/ PoolShutdown
    \/ CollectNext
    \/ CollectEnd

SpecPar == InitPar /\ [][NextPar]_vars

----------------------------------------------------------------------------
(* The pipeline specification: main_seq with --start and --pyreg, with and *)
(* without --multi.                                                        *)

PipeLines == {<<"b">>, <<"a", "b">>, <<"b", "a">>, <<"A", "b", "a", "a">>}
PipeFiles == SeqsOf(PipeLines, 0, MaxPipeLines)
PipeStarts == {<<<<"a">>>>, <<<<"a">>, <<"1">>>>, <<<<"b">>, <<"1">>>>}
PipePyregs == {<<r>> : r \in RegexSet} \cup {<<r, ALL>> : r \in RegexSet}

InitPipe ==
    /\ file \in PipeFiles
    /\ \E st \in PipeStarts, ins \in BOOLEAN, py \in PipePyregs,
          mu \in {None} \cup {<<n>> : n \in 1..MaxWorkers} :
          args = [BaseArgs EXCEPT !.start = st, !.insensitive = ins,
                                  !.pyreg = py, !.multi = mu]
    /\ InitCommon

NextPipe ==
    \/ MainStart
    \/ NormalSearchStep
    \/ LowerSearchStep
    \/ PyregMmap
    \/ MultiCall
    \/ EmptyCheck
    \/ UniqueStep
    \/ SortStep
    \/ CountsStep
    \/ ReturnAll
    \/ PrintResult
    \/ MultiSubmit
    \/ \E w \in 1..Len(workers) : WorkerTake(w)
    \/ \E w \in 1..Len(workers) : WorkerFinish(w)
    \/ PoolShutdown
    \/ CollectNext
    \/ CollectEnd

SpecPipe == InitPipe /\ [][NextPipe]_vars

----------------------------------------------------------------------------
(* The range specification: line_func applied to a result list.           *)

\*   pattern_search, line_range = line_func(start_end=pattern_search, args=args)
LineFuncStep ==
    /\ pc = "lines"
    /\ args.lines # None
    /\ gen = "none"
    /\ start_end' = pattern_search
    /\ LET r == line_func(pattern_search, args.lines[1])
       IN  /\ pc' = IF r.status = "ok" THEN "done" ELSE r.status
           /\ pattern_search' = IF r.status = "ok" THEN r.value ELSE pattern_search
           /\ line_range' = r.line_range
    /\ UNCHANGED <<args, file, checkFirst, checkLast, file_list, chunks,
                   futures, results, workers, done_order, collected, gen,
                   resume, output>>

Letters == <<"a", "b", "c", "d", "e", "f", "g", "h", "i">>

\* The result lists  [a], [a, b], ... : fragments that differ from one another
ResultLists == {[i \in 1..n |-> <<Letters[i]>>] : n \in 1..MaxResults}

RangeChars == {"0", "1", "2", "3", "4", "5", "6", "$", "-"}
RangeExprs == SeqsOf(RangeChars, 1, MaxExprLen)

InitRange ==
    /\ file = <<>>
    /\ \E e \in RangeExprs : args = [BaseArgs EXCEPT !.lines = <<e>>]
    /\ pc = "lines"
    /\ checkFirst = None
    /\ checkLast = None
    /\ file_list = <<>>
    /\ pattern_search \in ResultLists
    /\ chunks = <<>>
    /\ futures = <<>>
    /\ results = <<>>
    /\ workers = <<>>
    /\ done_order = <<>>
    /\ collected = 0
    /\ start_end = <<>>
    /\ line_range = FALSE
    /\ gen = "none"
    /\ resume = "done"
    /\ output = <<>>

NextRange == LineFuncStep

SpecRange == InitRange /\ [][NextRange]_vars

----------------------------------------------------------------------------
(* The post-processing specification: main_seq from the point where a     *)
(* matcher has returned its list, under every combination of --unique,    *)
(* --sort, --rev, --counts and a choice of --lines expressions.           *)

\* 10.0.0.2   10.0.0.10   9.0.0.1   x0   999.0.0.1
PostFrags ==
    { <<"1", "0", ".", "0", ".", "0", ".", "2">>,
      <<"1", "0", ".", "0", ".", "0", ".", "1", "0">>,
      <<"9", ".", "0", ".", "0", ".", "1">>,
      <<"x", "0">>,
      <<"9", "9", "9", ".", "0", ".", "0", ".", "1">> }

PostLists == SeqsOf(PostFrags, 0, MaxPostLen)

\* 1   2   $   1-2   3-1   $-2   2-$   3-$   1-9
PostExprs ==
    { <<"1">>, <<"2">>, <<"$">>, <<"1", "-", "2">>, <<"3", "-", "1">>,
      <<"$", "-", "2">>, <<"2", "-", "$">>, <<"3", "-", "$">>,
      <<"1", "-", "9">> }

InitPost ==
    /\ file = <<>>
    /\ \E u, so, r, c \in BOOLEAN, l \in {None} \cup {<<e>> : e \in PostExprs} :
          args = [BaseArgs EXCEPT !.start = <<<<"0">>>>, !.unique = u,
                                  !.sort = so, !.rev = r, !.counts = c,
                                  !.lines = l]
    /\ pc = "post"
    /\ checkFirst = None
    /\ checkLast = None
    /\ file_list = <<>>
    /\ pattern_search \in PostLists
    /\ chunks = <<>>
    /\ futures = <<>>
    /\ results = <<>>
    /\ workers = <<>>
    /\ done_order = <<>>
    /\ collected = 0
    /\ start_end = <<>>
    /\ line_range = FALSE
    /\ gen = "none"
    /\ resume = "done"
    /\ output = <<>>

NextPost ==
    \/ EmptyCheck
    \/ UniqueStep
    \/ SortStep
    \/ CountsStep
    \/ LineFuncStep
    \/ ReturnAll
    \/ PrintResult

SpecPost == InitPost /\ [][NextPost]_vars

----------------------------------------------------------------------------
(* The flags specification: a whole run of main_seq in each of its three  *)
(* execution modes (positional, memory-mapped, chunked parallel), on      *)
(* files with and without a match, under every combination of --unique,   *)
(* --sort and --counts and with and without --lines.                      *)

FlagFiles == SeqsOf({<<"b">>, <<"a", "b">>}, 0, MaxFlagLines)

\* -s a   |   -s a -i   |   -p a   |   -p a -m n
FlagModes ==
    {[BaseArgs EXCEPT !.start = <<<<"a">>>>, !.insensitive = i] : i \in BOOLEAN}
    \cup {[BaseArgs EXCEPT !.pyreg = <<[atoms |-> <<{"a"}>>, groups |-> <<>>]>>]}
    \cup {[BaseArgs EXCEPT !.pyreg = <<[atoms |-> <<{"a"}>>, groups |-> <<>>]>>,
                           !.multi = <<n>>] : n \in 1..MaxWorkers}

\* 1   1-2
FlagExprs == {None, <<<<"1">>>>, <<<<"1", "-", "2">>>>}

InitFlags ==
    /\ file \in FlagFiles
    /\ \E m \in FlagModes, u, so, c \in BOOLEAN, l \in FlagExprs :
          args = [m EXCEPT !.unique = u, !.sort = so, !.counts = c, !.lines = l]
    /\ InitCommon

NextFlags ==
    \/ MainStart
    \/ NormalSearchStep
    \/ LowerSearchStep
    \/ PyregMmap
    \/ MultiCall
    \/ EmptyCheck
    \/ UniqueStep
    \/ SortStep
    \/ CountsStep
    \/ LineFuncStep
    \/ LineFuncGenerator
    \/ ReturnAll
    \/ PrintResult
    \/ MultiSubmit
    \/ \E w \in 1..Len(workers) : WorkerTake(w)
    \/ \E w \in 1..Len(workers) : WorkerFinish(w)
    \/ PoolShutdown
    \/ CollectNext
    \/ CollectEnd

SpecFlags == InitFlags /\ [][NextFlags]_vars

----------------------------------------------------------------------------
(* The occurrence specification: the positional stage of main_seq with    *)
(* every kind of occurrence text on --start and --end: "all", positive    *)
(* numbers, 0, a negative number and a text that is not a number.         *)

\* all   1 .. MaxOcc   0   -1   x
OccTexts == PosOccs \cup {<<"0">>, <<"-", "1">>, <<"x">>}
OccTokens == {<<"a">>, <<"a", "b">>}
OccArgs == {<<t, o>> : t \in OccTokens, o \in OccTexts}

InitOcc ==
    /\ file \in PosFiles
    /\ \E st \in OccArgs, en \in {None} \cup OccArgs, ins \in BOOLEAN :
          args = [BaseArgs EXCEPT !.start = st, !.end = en, !.insensitive = ins]
    /\ InitCommon

NextOcc == MainStart \/ NormalSearchStep \/ LowerSearchStep

SpecOcc == InitOcc /\ [][NextOcc]_vars

----------------------------------------------------------------------------
(* The trimming specification: the positional stage of main_seq with      *)
(* --omitfirst, --omitlast (counts from 0 on) and --omitall.              *)

TrimStarts == {<<<<"a">>, ALL>>, <<<<"a">>, <<"1">>>>, <<<<"a", "b">>, ALL>>}
TrimEnds == {None, <<<<"b">>, ALL>>, <<<<"b">>, <<"1">>>>, <<<<"a">>, <<"1">>>>}
TrimCounts == {None} \cup {<<n>> : n \in 0..MaxTrim}

InitTrim ==
    /\ file \in PosFiles
    /\ \E st \in TrimStarts, en \in TrimEnds, ins \in BOOLEAN,
          f \in TrimCounts, l \in TrimCounts, all_ \in BOOLEAN :
          args = [BaseArgs EXCEPT !.start = st, !.end = en, !.insensitive = ins,
                                  !.omitfirst = f, !.omitlast = l,
                                  !.omitall = all_]
    /\ InitCommon

NextTrim == MainStart \/ NormalSearchStep \/ LowerSearchStep

SpecTrim == InitTrim /\ [][NextTrim]_vars

----------------------------------------------------------------------------
(* The memory-mapped specification: main_seq with --pyreg alone, without  *)
(* --start and --multi, so that pygrep_mmap reads the file itself.  No    *)
(* pattern of RegexSet matches a line terminator.                         *)

InitMmap ==
    /\ file \in ParFiles
    /\ \E py \in PyregArgs, ins \in BOOLEAN :
          args = [BaseArgs EXCEPT !.pyreg = py, !.insensitive = ins]
    /\ InitCommon

NextMmap == MainStart \/ PyregMmap

SpecMmap == InitMmap /\ [][NextMmap]_vars

----------------------------------------------------------------------------
(* Reference semantics of the positional matcher, stated over the set of   *)
(* positions at which a token occurs (overlapping occurrences included).   *)

\* The 0-based positions at which tok occurs in line
OccurrencesOf(line, tok) ==
    {i \in 0..Len(line) : MatchAt(line, tok, i)}

\* The n-th smallest position of S that is >= from, -1 when there is none
NthAtOrAfter(S, from, n) ==
    LET T == {x \in S : x >= from
                        /\ Cardinality({i \in S : i >= from /\ i <= x}) = n}
    IN  IF T = {} THEN -1 ELSE CHOOSE x \in T : TRUE

IsAll(tokarg) == tokarg[2] = ALL
OccOf(tokarg) == PyInt(tokarg[2])[1]

\* The span [from, to) that a reading of the contract selects in line, or
\* None when the line is dropped.  st and en are <<token, occurrence>>, en
\* is None without an end token.  The reading is given by three choices:
\*   allCuts  - with start occurrence "all" the span begins at the first
\*              occurrence (TRUE) or at the beginning of the line (FALSE);
\*   sameInc  - with identical tokens the end occurrence is counted after
\*              the start occurrence (TRUE) or from it (FALSE);
\*   endNeeded - an end token without a number must occur once (TRUE) or is
\*              not looked for (FALSE).
ReadSpan(line, st, en, allCuts, sameInc, endNeeded) ==
    LET n     == IF IsAll(st) THEN 1 ELSE OccOf(st)
        sp    == NthAtOrAfter(OccurrencesOf(line, st[1]), 0, n)
        from  == IF IsAll(st) /\ ~allCuts THEN 0 ELSE sp
        endAll == en # None /\ IsAll(en)
        m     == IF en = None THEN 0
                 ELSE IF IsAll(en) THEN 1
                 ELSE OccOf(en) + (IF sameInc /\ st[1] = en[1] THEN 1 ELSE 0)
        ep    == IF en = None THEN -1
                 ELSE NthAtOrAfter(OccurrencesOf(line, en[1]), from, m)
    IN  IF sp = -1 THEN None
        ELSE IF en = None \/ (endAll /\ ~endNeeded) THEN Some(<<from, Len(line)>>)
        ELSE IF ep = -1 THEN None
        ELSE IF endAll THEN Some(<<from, Len(line)>>)
        ELSE Some(<<from, ep + Len(en[1])>>)

\* What the code does, in these terms
CodeSpan(line, st, en) == ReadSpan(line, st, en, FALSE, TRUE, FALSE)

\* The fragments of a list of lines under a function from a line to its span
FragmentsBy(lines, span(_)) ==
    Flatten([i \in 1..Len(lines) |->
        IF span(lines[i]) = None THEN <<>>
        ELSE <<Cut(lines[i], span(lines[i])[1][1], span(lines[i])[1][2])>>])

\* main_seq returned from the positional matcher, nothing was trimmed
PosDone == pc = "post" /\ checkFirst = None /\ checkLast = None

Numbered(tokarg) == tokarg # None /\ ~IsAll(tokarg)

----------------------------------------------------------------------------
(* Claims about the positional matcher, checked under SpecPos. *)

\* C1 as stated: with numbered start occurrence N and end occurrence M (or
\* no end token) the fragment of every line runs from the N-th occurrence
\* of the start token to the end of the M-th occurrence of the end token
\* found at or after that beginning (to the end of the line without an end
\* token).
C1_AsStated ==
    (PosDone /\ ~args.insensitive /\ Numbered(args.start)
       /\ (args.end = None \/ Numbered(args.end)))
    => pattern_search =
         FragmentsBy(file_list,
            LAMBDA l : ReadSpan(l, args.start, args.end, FALSE, FALSE, FALSE))

\* C1 amended: as C1, but when the end token is the same text as the start
\* token the fragment ends at the (M+1)-th occurrence found at or after its
\* beginning.
C1_Amended ==
    (PosDone /\ ~args.insensitive /\ Numbered(args.start)
       /\ (args.end = None \/ Numbered(args.end)))
    => pattern_search =
         FragmentsBy(file_list,
            LAMBDA l : ReadSpan(l, args.start, args.end, FALSE, TRUE, FALSE))

\* A run with start occurrence 2 and a different, numbered end token that
\* yields a fragment which is neither the line nor a suffix of it.
C1_Witness ==
    /\ PosDone /\ ~args.insensitive
    /\ Numbered(args.start) /\ OccOf(args.start) = 2
    /\ Numbered(args.end) /\ args.end[1] # args.start[1]
    /\ Len(file_list) = 1
    /\ Len(pattern_search) = 1
    /\ Len(pattern_search[1]) + 1 < Len(file_list[1])

\* C7 as stated: a line contributes a fragment exactly when it holds the
\* start token the requested number of times and, whenever an end token is
\* configured (numbered or not), the end token the requested number of
\* times within the span; the other lines are dropped and the fragments of
\* the remaining lines are unchanged and in order.
C7_AsStated ==
    (PosDone /\ ~args.insensitive)
    => pattern_search =
         Flatten([i \in 1..Len(file_list) |->
            IF ReadSpan(file_list[i], args.start, args.end, FALSE, TRUE, TRUE) = None
            THEN <<>>
            ELSE normal_search(<<file_list[i]>>, args, None, None)])

\* The span of a line when both tokens are the same text: from the chosen
\* start occurrence to the end of the M-th occurrence strictly after it
C8_EndSpan(line) ==
    LET l  == IF args.insensitive THEN Casefold(line) ELSE line
        t  == IF args.insensitive THEN Casefold(args.start[1]) ELSE args.start[1]
        sp == NthAtOrAfter(OccurrencesOf(l, t), 0,
                           IF IsAll(args.start) THEN 1 ELSE OccOf(args.start))
        ep == NthAtOrAfter(OccurrencesOf(l, t), sp + 1, OccOf(args.end))
    IN  IF sp = -1 \/ ep = -1 THEN None
        ELSE Some(<<IF IsAll(args.start) THEN 0 ELSE sp, ep + Len(t)>>)

\* C8: with identical start and end tokens and end occurrence M, the
\* fragment of a line ends with the M-th occurrence of the token that
\* begins strictly after the chosen start occurrence (the first one when
\* the start occurrence is "all"); a line without such an occurrence is
\* dropped.  In case-insensitive mode the occurrences are those of the
\* folded token in the folded line.
C8_SameToken ==
    (PosDone /\ Numbered(args.end) /\ args.start[1] = args.end[1])
    => pattern_search = FragmentsBy(file_list, LAMBDA l : C8_EndSpan(l))

\* A run with identical tokens, start occurrence 1 and end occurrence 1 on
\* a line with three occurrences: the fragment is cut after the second.
C8_Witness ==
    /\ PosDone /\ Numbered(args.end) /\ args.start[1] = args.end[1]
    /\ Numbered(args.start) /\ OccOf(args.start) = 1 /\ OccOf(args.end) = 1
    /\ Len(file_list) = 1
    /\ Cardinality(OccurrencesOf(file_list[1], args.start[1])) = 3
    /\ Len(pattern_search) = 1
    /\ Len(pattern_search[1]) < Len(file_list[1])

FoldArg(tokarg) ==
    IF tokarg = None THEN None ELSE <<Casefold(tokarg[1]), tokarg[2]>>

\* C10 as stated: in case-insensitive mode the matcher selects the positions
\* that the case-sensitive matcher selects on the folded line with the
\* folded tokens (and drops the same lines), and returns the text of the
\* original line at those positions.
C10_AsStated ==
    (PosDone /\ args.insensitive)
    => pattern_search =
         FragmentsBy(file_list,
            LAMBDA l : CodeSpan(Casefold(l), FoldArg(args.start), FoldArg(args.end)))

\* The reference semantics agree with normal_search on every configuration
\* (the basis of C10's comparison).
CodeSpanIsNormalSearch ==
    (PosDone /\ ~args.insensitive)
    => pattern_search =
         FragmentsBy(file_list, LAMBDA l : CodeSpan(l, args.start, args.end))

----------------------------------------------------------------------------
(* Claims about the chunked parallel driver and the pattern matcher,       *)
(* checked under SpecPar.                                                  *)

\* C3: whatever the worker count and the order in which the workers finish,
\* the chunks partition the stripped input contiguously, what has been
\* yielded is the concatenation of the results of the first chunks in
\* submission order, and a run that ends normally has yielded exactly the
\* list that pygrep_search returns on the whole input (and ends in the
\* fatal error exactly when pygrep_search does).
C3_ParallelEqualsSequential ==
    LET whole == pygrep_search(args, unified_input_reader(file))
    IN  /\ (pc \in {"pool", "collect"} \/ gen = "spent")
             => /\ Flatten(chunks) = unified_input_reader(file)
                /\ pattern_search =
                     Flatten([c \in 1..collected |-> results[c].out])
        /\ gen = "spent" => ~whole.fatal /\ pattern_search = whole.out
        /\ (pc = "fatal" /\ chunks # <<>>) => whole.fatal

\* A run of two workers that ended normally, in which the second chunk's
\* result arrived before the first one's and both chunks yielded different
\* fragments.
C3_Witness ==
    /\ gen = "spent"
    /\ n_cores = 2
    /\ Len(done_order) >= 2 /\ done_order[1] = 2 /\ done_order[2] = 1
    /\ results[1].out # <<>>
    /\ results[2].out # <<>>
    /\ results[1].out # results[2].out

\* The fragments that the "all" mode is to yield for a list of lines
C5_Expected(lines) ==
    LET pat == args.pyreg[1]
    IN  Flatten([i \in 1..Len(lines) |->
          LET ps == FindIter(lines[i], pat, args.insensitive, 0)
          IN  IF ps = <<>> THEN <<>>
              ELSE IF GroupNum(pat) > 1
              THEN <<Tail(SpaceJoin(MatchGroups(lines[i], pat, ps[1])))>>
              ELSE [j \in 1..Len(ps) |-> MatchGroups(lines[i], pat, ps[j])[1]]])

\* C5 as stated: in "all" mode a pattern with several groups yields for
\* every line with a match one fragment, the groups of the first match
\* joined by spaces, and a pattern with one group yields one fragment for
\* every match of a line.
C5_AsStated ==
    \A c \in 1..Len(futures) :
        (/\ futures[c] = "done"
         /\ Len(args.pyreg) = 2 /\ args.pyreg[2] = ALL
         /\ GroupNum(args.pyreg[1]) >= 1)
        => results[c] = Ok(C5_Expected(chunks[c]))

\* The requested indices, as numbers
C6_IndexList == IntList(SplitStr(args.pyreg))[1]

\* The fragments that the index-list mode is to yield for a list of lines
C6_Expected(lines) ==
    LET pat == args.pyreg[1]
    IN  Flatten([i \in 1..Len(lines) |->
          LET ps == FindIter(lines[i], pat, args.insensitive, 0)
          IN  IF ps = <<>> THEN <<>>
              ELSE <<Tail(SpaceJoin([j \in 1..Len(C6_IndexList) |->
                        MatchGroups(lines[i], pat, ps[1])[C6_IndexList[j]]]))>>])

\* C6 as stated: in index-list mode every line with a match yields the
\* groups of its first match at the requested indices, joined by spaces in
\* the requested order; when a requested index exceeds the number of groups
\* of the pattern no fragment is emitted and the run is fatal (as soon as a
\* line matches).
C6_AsStated ==
    \A c \in 1..Len(futures) :
        (/\ futures[c] = "done"
         /\ Len(args.pyreg) = 2 /\ args.pyreg[2] # ALL
         /\ Len(SplitStr(args.pyreg)) >= 2
         /\ \A j \in 1..Len(C6_IndexList) : C6_IndexList[j] >= 1)
        => IF \E j \in 1..Len(C6_IndexList) :
                 C6_IndexList[j] > GroupNum(args.pyreg[1])
           THEN /\ results[c].out = <<>>
                /\ (\E i \in 1..Len(chunks[c]) :
                       FindIter(chunks[c][i], args.pyreg[1], args.insensitive, 0) # <<>>)
                   => results[c].fatal
           ELSE results[c] = Ok(C6_Expected(chunks[c]))

----------------------------------------------------------------------------
(* Claim about the wiring of the two matchers, checked under SpecPipe. *)

\* C2 as stated: with a start token and a regular expression the
\* regular-expression stage runs over the fragments of the positional
\* matcher (file_list after  file_list = pattern_search), on the
\* memory-mapped path and on the chunked-parallel path.
C2_AsStated ==
    (/\ (pc = "post" /\ args.multi = None) \/ gen = "spent"
     /\ args.start # None /\ args.pyreg # None)
    => pattern_search = IF args.multi = None
                        THEN pygrep_mmap(args, file_list).out
                        ELSE pygrep_search(args, file_list).out

----------------------------------------------------------------------------
(* Claim about the line-range selector, checked under SpecRange. *)

\* The text of a number below 10
NumText(k) == <<DigitChar(k)>>

\* C4: for a result list of length n and numbers a, b within 1..n, the
\* expression "a-b" returns the elements at the 1-based positions
\* min(a, b)..max(a, b), in their order, as a range.
C4_PlainRange ==
    \A a, b \in 1..Len(start_end) :
        (pc # "lines" /\ args.lines[1] = NumText(a) \o <<"-">> \o NumText(b))
        => /\ pc = "done"
           /\ line_range = TRUE
           /\ pattern_search = SubSeq(start_end, Min2(a, b), Max2(a, b))

\* "4-2" of [a, b, c, d, e] returned [b, c, d]
C4_Witness ==
    /\ pc = "done"
    /\ args.lines[1] = <<"4", "-", "2">>
    /\ start_end = <<<<"a">>, <<"b">>, <<"c">>, <<"d">>, <<"e">>>>
    /\ pattern_search = <<<<"b">>, <<"c">>, <<"d">>>>

\* C11 as stated: for a result list of length n and a number a within 1..n,
\* the expression "a-$" returns the elements at the 1-based positions a..n,
\* in their order, and the call never fails.
C11_AsStated ==
    \A a \in 1..Len(start_end) :
        (pc # "lines" /\ args.lines[1] = NumText(a) \o <<"-", "$">>)
        => /\ pc = "done"
           /\ line_range = TRUE
           /\ pattern_search = SubSeq(start_end, a, Len(start_end))

\* C12 as stated: for an expression "a-b" of two plain numbers and a result
\* list with fewer than max(a, b) elements, line_func returns the list as it
\* is and never fails.
C12_AsStated ==
    \A a, b \in 0..9 :
        (/\ pc # "lines"
         /\ args.lines[1] = NumText(a) \o <<"-">> \o NumText(b)
         /\ Len(start_end) < Max2(a, b))
        => /\ pc = "done"
           /\ line_range = TRUE
           /\ pattern_search = start_end

----------------------------------------------------------------------------
(* Claims about sorting and counting, checked under SpecPost. *)

\* C13 as stated: with sort on and counting off (and no reverse), the sort
\* step never fails and leaves the list in the order of the address values
\* when every fragment is a valid dotted-quad address, and in ascending
\* lexicographic order in every other case.
C13_AsStated ==
    [][(pc = "sort" /\ args.sort /\ ~args.counts /\ ~args.rev /\ gen = "none")
       => /\ pc' = "counts"
          /\ pattern_search' =
               IF \A i \in 1..Len(pattern_search) : ValidIP(pattern_search[i])
               THEN Sorted(pattern_search, ByIP(pattern_search, FALSE))
               ELSE Sorted(pattern_search, ByText(pattern_search, FALSE))]_vars

\* The frequency mapping that line_func is handed: counted, ordered by
\* count with --sort, reversed with --rev
C19_Mapping ==
    LET counter == Counter(pattern_search)
        sorted  == IF args.sort THEN most_common(counter) ELSE counter
    IN  IF args.rev THEN Reverse(sorted) ELSE sorted

\* The entries of the mapping m at the positions that the expression e
\* addresses: N, $, a-b, $-b, a-$
C19_Addressed(m, e) ==
    LET n     == Len(m)
        split == Split(e, "-")
    IN  IF ~Contains(e, <<"-">>)
        THEN IF e = <<"$">> THEN <<m[n]>> ELSE <<m[PyInt(e)[1]]>>
        ELSE IF split[1] = <<"$">>
        THEN SubSeq(m, Max2(n - PyInt(split[2])[1] + 1, 1), n)
        ELSE IF split[2] = <<"$">>
        THEN SubSeq(m, PyInt(split[1])[1], n)
        ELSE LET a == PyInt(split[1])[1]
                 b == PyInt(split[2])[1]
             IN  IF n < Max2(a, b) THEN m
                 ELSE SubSeq(m, Min2(a, b), Max2(a, b))

\* The expression e addresses positions that the mapping m has
C19_InRange(m, e) ==
    LET n     == Len(m)
        split == Split(e, "-")
    IN  /\ n >= 1
        /\ IF ~Contains(e, <<"-">>)
           THEN e = <<"$">> \/ PyInt(e)[1] \in 1..n
           ELSE IF split[1] = <<"$">> THEN PyInt(split[2])[1] >= 1
           ELSE IF split[2] = <<"$">> THEN PyInt(split[1])[1] \in 1..n
           ELSE PyInt(split[1])[1] >= 1 /\ PyInt(split[2])[1] >= 1

\* The width of the key column
C19_Padding ==
    4 + CHOOSE w \in 0..100 :
          /\ \E k \in 1..Len(pattern_search) : Len(pattern_search[k]) = w
          /\ \A k \in 1..Len(pattern_search) : Len(pattern_search[k]) <= w

\* C19 as stated: with --counts and a --lines expression that addresses
\* positions of the frequency mapping (N, $, a-b, $-b, a-$), the counts step
\* returns one display line for each key-count pair at the addressed
\* positions of the mapping in its iteration order (reversed first with
\* --rev; the whole mapping when a-b asks for more than it holds), in that
\* same order.
C19_AsStated ==
    [][(/\ pc = "counts" /\ args.counts /\ args.lines # None /\ gen = "none"
        /\ C19_InRange(C19_Mapping, args.lines[1]))
       => /\ pc' = "done"
          /\ pattern_search' =
               LET picked == C19_Addressed(C19_Mapping, args.lines[1])
               IN  [k \in 1..Len(picked) |-> LineCounts(picked[k], C19_Padding)]]_vars

----------------------------------------------------------------------------
(* Claims about the worker pool's failures, checked under SpecPar. *)

\* C14 as stated: when a worker ended its chunk with a fatal error, the run
\* ends in the fatal outcome and no fragment of any chunk has been written
\* to the output, the fragments of earlier successful chunks included.
C14_AsStated ==
    (/\ pc \in {"fatal", "printed", "nomatch", "crash"}
     /\ \E c \in 1..Len(results) : results[c].fatal)
    => /\ pc = "fatal"
       /\ output = <<>>

----------------------------------------------------------------------------
(* Claims about the empty result, checked under SpecFlags. *)

\* What the matcher stage of the run's mode yields on the run's file
MatcherResult ==
    LET lines == unified_input_reader(file)
    IN  IF args.start # None
        THEN IF args.insensitive
             THEN Ok(lower_search(lines, args, checkFirst, checkLast))
             ELSE Ok(normal_search(lines, args, checkFirst, checkLast))
        ELSE IF args.multi = None
        THEN pygrep_mmap(args, file)
        ELSE pygrep_search(args, lines)

\* The run is over
RunEnded == pc \in {"printed", "nomatch", "fatal", "crash"}

\* C15 as stated: in each execution mode and under every combination of the
\* unique, sort, counts and lines flags, a run whose matcher stage yields no
\* fragment ends in the normal "no match" outcome, without executing or
\* failing in any post-processing step.
C15_AsStated ==
    (/\ RunEnded
     /\ ~MatcherResult.fatal
     /\ MatcherResult.out = <<>>)
    => pc = "nomatch"

----------------------------------------------------------------------------
(* Claims about the occurrence values, checked under SpecOcc. *)

\* An occurrence text that is neither "all" nor a positive integer
BadOcc(tokarg) ==
    /\ tokarg # None
    /\ Len(tokarg) >= 2
    /\ tokarg[2] # ALL
    /\ (PyInt(tokarg[2]) = None \/ PyInt(tokarg[2])[1] <= 0)

\* C16 as stated: when the occurrence of --start or of --end is neither
\* "all" nor a positive integer (0, a negative integer, or a text that is
\* not a number), the positional stage ends in the fatal error and no
\* fragment is produced.
C16_AsStated ==
    (/\ pc \notin {"start", "positional"}
     /\ (BadOcc(args.start) \/ BadOcc(args.end)))
    => /\ pc = "fatal"
       /\ pattern_search = <<>>

----------------------------------------------------------------------------
(* Claims about trimming, checked under SpecTrim. *)

\* s without its first l and its last r characters
TrimExact(s, l, r) ==
    IF l + r >= Len(s) THEN <<>> ELSE SubSeq(s, l + 1, Len(s) - r)

\* The fragments of the run before trimming
Untrimmed ==
    IF args.insensitive THEN lower_search(file_list, args, None, None)
    ELSE normal_search(file_list, args, None, None)

\* The left and the right trim count of the run
LeftTrim ==
    IF args.omitall THEN Len(args.start[1])
    ELSE IF args.omitfirst # None THEN args.omitfirst[1] ELSE 0
RightTrim ==
    IF args.omitall THEN Len(args.end[1])
    ELSE IF args.omitlast # None THEN args.omitlast[1] ELSE 0

\* C17 as stated: for left and right trim counts from 0 on, set by
\* --omitfirst, --omitlast or --omitall (the lengths of the start and the
\* end token), every fragment the positional stage returns is the untrimmed
\* span without exactly its first l and its last r characters.
C17_AsStated ==
    (/\ pc = "post"
     /\ (args.omitall \/ args.omitfirst # None \/ args.omitlast # None))
    => pattern_search =
         [i \in 1..Len(Untrimmed) |-> TrimExact(Untrimmed[i], LeftTrim, RightTrim)]

----------------------------------------------------------------------------
(* Claims about the memory-mapped matcher, checked under SpecMmap. *)

\* C18 as stated: for every group selector (none, "all", one index, a list
\* of indexes) pygrep_mmap ends in the fatal error exactly when pygrep_search
\* does on the lines of the same file, and otherwise returns the same
\* sequence of fragments.
C18_AsStated ==
    LET lineByLine == pygrep_search(args, unified_input_reader(file))
    IN  /\ (pc = "fatal" /\ ~SenseFatal(args)) => lineByLine.fatal
        /\ pc = "post" => /\ ~lineByLine.fatal
                          /\ pattern_search = lineByLine.out

====
